---------------------------- MODULE Spec2Model ----------------------------
(***************************************************************************)
(* A model of cluster.py (scipy-cluster): squareform, pdist, linkage,      *)
(* totree and cophenet.  Every function of the module is a synchronous     *)
(* call; the state is the frame of the call in progress: its arguments,    *)
(* its locals, the calls it has made to the extension module               *)
(* (_cluster_wrap) or to a caller-supplied metric, and what it returned    *)
(* or raised.                                                              *)
(*                                                                         *)
(* Doubles are modelled by integers.  Fractions are held in fixed point    *)
(* with One as the unit; the inputs are chosen so that the divisions the   *)
(* model performs are exact wherever a claim depends on the value.  NaN   *)
(* is a distinguished value that is unequal to everything, itself          *)
(* included, as IEEE comparison has it.                                    *)
(***************************************************************************)
EXTENDS Integers, Sequences, FiniteSets, TLC

VARIABLES pc, args, frame, calls, ret

vars == <<pc, args, frame, calls, ret>>

(***************************************************************************)
(* Bounds of the model.                                                    *)
(***************************************************************************)
\* longest 1-D vector handed to squareform
MaxVecLen == 4
\* largest square matrix handed to squareform
MaxDim == 3
\* the entries of the arrays handed to squareform
SqVals == {0, 1, 2}
\* most rows (observations) of an observation matrix
MaxRows == 3
\* the numbers of columns (dimensions) of the observation matrices
ObsCols == {1, 2}
\* the components of the observations
XVals == {0, 1}
\* most observations handed to linkage
MaxObs == 4
\* the numbers of columns of the observation matrices handed to linkage
LinkCols == {1, 2}
\* most rows (merges) of a linkage matrix handed to totree and cophenet
MaxMerges == 2

(***************************************************************************)
(* Numbers.                                                                *)
(***************************************************************************)
\* the fixed-point unit: divisible by 1, 2, 3, 4, 5, 6 and 8
One == 8 * 3 * 5

NaN == 0 - 999999

IsNaN(x) == x = NaN

\* IEEE ==: false as soon as one side is NaN
FloatEq(a, b) == ~IsNaN(a) /\ ~IsNaN(b) /\ a = b

Abs(x) == IF x < 0 THEN 0 - x ELSE x

Max2(a, b) == IF a >= b THEN a ELSE b

Min2(a, b) == IF a <= b THEN a ELSE b

RECURSIVE Pow(_, _)
Pow(x, e) == IF e = 0 THEN 1 ELSE x * Pow(x, e - 1)

\* floor of the p-th root of x >= 0, by bisection of lo..hi
RECURSIVE IrootBetween(_, _, _, _)
IrootBetween(x, p, lo, hi) ==
    IF lo >= hi THEN lo
    ELSE LET mid == (lo + hi + 1) \div 2
         IN  IF Pow(mid, p) <= x THEN IrootBetween(x, p, mid, hi)
             ELSE IrootBetween(x, p, lo, mid - 1)

\* no larger root fits a 32-bit integer
Iroot(x, p) ==
    IrootBetween(x, p, 0,
                 IF p = 1 THEN x ELSE IF p = 2 THEN Min2(x, 46340) ELSE Min2(x, 1290))

\* floor of the square root
Isqrt(x) == Iroot(x, 2)

\* scipy.ceil(scipy.sqrt(x)) for an integer x >= 0
CeilSqrt(x) == LET r == Isqrt(x) IN IF r * r = x THEN r ELSE r + 1

RECURSIVE SumSeq(_)
SumSeq(s) == IF s = <<>> THEN 0 ELSE Head(s) + SumSeq(Tail(s))

(***************************************************************************)
(* Arrays (numpy.ndarray): element type, shape and the buffer of the       *)
(* elements, which a 2-D array holds row after row.                        *)
(***************************************************************************)
Vec(data) == [dtype |-> "double", shape |-> <<Len(data)>>, data |-> data]

Mat(r, c, data) == [dtype |-> "double", shape |-> <<r, c>>, data |-> data]

Rank(X) == Len(X.shape)

\* scipy.zeros((r, c))
Zeros2(r, c) == Mat(r, c, [k \in 1..(r * c) |-> 0])

\* scipy.zeros((l,))
Zeros1(l) == Vec([i \in 1..l |-> 0])

\* X[i, j], indices from 0 as in the source
At(X, i, j) == X.data[i * X.shape[2] + j + 1]

\* the matrix of shape (r, c) whose entry [i, j] is e[i, j], indices from 0
MatOf(r, c, e) ==
    Mat(r, c, [k \in 1..(r * c) |-> e[(k - 1) \div c, (k - 1) % c]])

\* X[i, :]
Row(X, i) == [j \in 1..X.shape[2] |-> At(X, i, j - 1)]

\* X.transpose()
Transpose(X) ==
    MatOf(X.shape[2], X.shape[1],
          [p \in (0..(X.shape[2] - 1)) \X (0..(X.shape[1] - 1)) |-> At(X, p[2], p[1])])

\* A + B for two matrices of the same shape
MatAdd(A, B) ==
    [A EXCEPT !.data = [k \in 1..Len(A.data) |->
                          IF IsNaN(A.data[k]) \/ IsNaN(B.data[k])
                          THEN NaN
                          ELSE A.data[k] + B.data[k]]]

\* position of the pair (i, j), i < j, among the m(m-1)/2 pairs, from 0
PairIndex(m, i, j) == i * m - (i * (i + 1)) \div 2 + (j - i - 1)

\* the pairs (i, j), 0 <= i < j < m
Pairs(m) == {p \in (0..(m - 1)) \X (0..(m - 1)) : p[1] < p[2]}

\* the pair stored at position k
PairAt(m, k) == CHOOSE p \in Pairs(m) : PairIndex(m, p[1], p[2]) = k

(***************************************************************************)
(* What a call does: it returns a value or raises.  `line' is the line of  *)
(* the raise statement in cluster.py.                                      *)
(***************************************************************************)
Ok(v) == [status |-> "ok", exc |-> "", line |-> 0, value |-> v]

Raise(exc, line) == [status |-> "error", exc |-> exc, line |-> line, value |-> <<>>]

Pending == [status |-> "none", exc |-> "", line |-> 0, value |-> <<>>]

\* str.lower() on the strings the model passes as `force'
Lower(s) == IF s = "TOMATRIX" THEN "tomatrix"
            ELSE IF s = "ToVector" THEN "tovector"
            ELSE s

(***************************************************************************)
(* _cluster_wrap: the two copy loops behind squareform.                    *)
(***************************************************************************)
\* writes v[k(i,j)] into M[i, j] for i < j and leaves the rest of M alone
to_squareform_from_vector_wrap(M, v) ==
    MatOf(M.shape[1], M.shape[2],
          [p \in (0..(M.shape[1] - 1)) \X (0..(M.shape[2] - 1)) |->
              IF p[1] < p[2]
              THEN v.data[PairIndex(M.shape[1], p[1], p[2]) + 1]
              ELSE At(M, p[1], p[2])])

\* writes X[i, j], i < j, into v[k(i,j)]
to_vector_from_squareform_wrap(X, v) ==
    [v EXCEPT !.data = [k \in 1..v.shape[1] |->
                          LET p == PairAt(X.shape[1], k - 1)
                          IN  At(X, p[1], p[2])]]

(***************************************************************************)
(* squareform(X, force="no", checks=True)                                  *)
(***************************************************************************)
\* scipy.sum(scipy.sum(X == X.transpose())) != scipy.product(X.shape)
NotSymmetrical(X) ==
    Cardinality({p \in (0..(X.shape[1] - 1)) \X (0..(X.shape[2] - 1)) :
                    FloatEq(At(X, p[1], p[2]), At(X, p[2], p[1]))})
        # X.shape[1] * X.shape[2]

\* (X.diagonal() != 0).any()
DiagonalNonZero(X) == \E i \in 0..(X.shape[1] - 1) : ~FloatEq(At(X, i, i), 0)

\* SquareformToMatrix without line 313 (M = M + M.transpose()): only the upper
\* triangle is filled
SquareformToMatrix_UpperOnly(X) ==
    LET s == X.shape
        d == CeilSqrt(s[1] * 2)
    IN  IF (d * (d - 1)) \div 2 # s[1]
        THEN Raise("AttributeError", 304)
        ELSE Ok(to_squareform_from_vector_wrap(Zeros2(d, d), X))

\* the branch of squareform that builds the matrix of a vector
SquareformToMatrix(X) ==
    LET s == X.shape
        d == CeilSqrt(s[1] * 2)
    IN  IF (d * (d - 1)) \div 2 # s[1]
        THEN Raise("AttributeError", 304)
        ELSE LET M == to_squareform_from_vector_wrap(Zeros2(d, d), X)
             IN  Ok(MatAdd(M, Transpose(M)))

\* the branch of squareform that builds the vector of a matrix
SquareformToVector(X, checks) ==
    LET s == X.shape
    IN  IF s[1] # s[2] THEN Raise("AttributeError", 319)
        ELSE IF checks /\ NotSymmetrical(X) THEN Raise("AttributeError", 322)
        ELSE IF checks /\ DiagonalNonZero(X) THEN Raise("AttributeError", 324)
        ELSE LET d == s[1]
             IN  Ok(to_vector_from_squareform_wrap(X, Zeros1((d * (d - 1)) \div 2)))

squareform(X, force, checks) ==
    LET s == X.shape
    IN  IF X.dtype # "double" THEN Raise("AttributeError", 290)
        ELSE IF Len(s) = 1 /\ force # "tomatrix" THEN SquareformToMatrix(X)
        ELSE IF Len(s) # 1 /\ Lower(force) = "tomatrix" THEN Raise("AttributeError", 316)
        ELSE IF Len(s) = 2 /\ Lower(force) # "tovector" THEN SquareformToVector(X, checks)
        ELSE IF Len(s) # 2 /\ Lower(force) = "tomatrix" THEN Raise("AttributeError", 336)
        ELSE Raise("AttributeError", 338)

(***************************************************************************)
(* The callers of squareform: every 1-D vector up to MaxVecLen, and the    *)
(* matrices up to MaxDim: the symmetric zero-diagonal ones, those with one *)
(* entry raised, and the all-zero rectangles.                              *)
(***************************************************************************)
ForceModes == {"no", "tovector", "tomatrix", "TOMATRIX"}

SqVectors(l) == {Vec(v) : v \in [1..l -> SqVals]}

\* a valid condensed vector: its length is d(d-1)/2 for some d >= 2
IsCondensed(X) ==
    /\ X.dtype = "double"
    /\ Rank(X) = 1
    /\ \E d \in 2..(X.shape[1] + 1) : (d * (d - 1)) \div 2 = X.shape[1]

\* the d x d distance matrix whose upper triangle is v, row by row
DistanceMatrix(d, v) ==
    MatOf(d, d, [p \in (0..(d - 1)) \X (0..(d - 1)) |->
        IF p[1] = p[2] THEN 0
        ELSE v[PairIndex(d, Min2(p[1], p[2]), Max2(p[1], p[2])) + 1]])

\* a square, symmetric matrix with a zero diagonal
IsDistanceMatrix(X) ==
    /\ X.dtype = "double"
    /\ Rank(X) = 2
    /\ X.shape[1] = X.shape[2]
    /\ \A i, j \in 0..(X.shape[1] - 1) : At(X, i, j) = At(X, j, i)
    /\ \A i \in 0..(X.shape[1] - 1) : At(X, i, i) = 0

SqDistanceMatrices(d) ==
    {DistanceMatrix(d, v) : v \in [1..((d * (d - 1)) \div 2) -> SqVals]}

Bumped(X, k) == [X EXCEPT !.data[k] = @ + 1]

SqBumpedMatrices(d) ==
    {Bumped(q[1], q[2]) : q \in SqDistanceMatrices(d) \X (1..(d * d))}

SqRectangles(d) ==
    {Zeros2(q[1], q[2]) : q \in {p \in (0..d) \X (0..d) : p[1] # p[2] /\ d \in {p[1], p[2]}}}

\* the arrays of size d passed as X, by their kind
SqInputs(kind, d) ==
    CASE kind = "vector" -> IF d <= MaxVecLen THEN SqVectors(d) ELSE {}
      [] kind = "matrix" -> IF d <= MaxDim THEN SqDistanceMatrices(d) ELSE {}
      [] kind = "bumped" -> IF d <= MaxDim THEN SqBumpedMatrices(d) ELSE {}
      [] kind = "rectangle" -> IF d <= MaxDim THEN SqRectangles(d) ELSE {}
      [] kind = "int" -> IF d = 1 THEN {[Vec(<<1>>) EXCEPT !.dtype = "int"]} ELSE {}

SqInit ==
    /\ pc = "squareform"
    /\ \E kind \in {"vector", "matrix", "bumped", "rectangle", "int"},
          d \in 0..Max2(MaxVecLen, MaxDim) :
          args \in [X : SqInputs(kind, d), force : ForceModes, checks : BOOLEAN]
    /\ frame = <<>>
    /\ calls = <<>>
    /\ ret = Pending

\* the caller's call squareform(X, force, checks)
SquareformCall ==
    /\ pc = "squareform"
    /\ ret' = squareform(args.X, args.force, args.checks)
    /\ frame' = <<>>
    /\ pc' = "squareform_returned"
    /\ UNCHANGED <<args, calls>>

\* the caller hands the value it got back to squareform, with the defaults
SquareformAgain ==
    /\ pc = "squareform_returned"
    /\ ret.status = "ok"
    /\ frame' = [first |-> ret.value]
    /\ ret' = squareform(ret.value, "no", TRUE)
    /\ pc' = "squareform_round_trip"
    /\ UNCHANGED <<args, calls>>

SqNext == SquareformCall \/ SquareformAgain

SpecSquareform == SqInit /\ [][SqNext]_vars

(***************************************************************************)
(* Claims about squareform.                                                *)
(***************************************************************************)
\* the condensed vector of a square matrix: its upper triangle, row by row
CondensedOf(X) ==
    Vec([k \in 1..((X.shape[1] * (X.shape[1] - 1)) \div 2) |->
            LET p == PairAt(X.shape[1], k - 1) IN At(X, p[1], p[2])])

\* the call was made with the default arguments
SqDefaults == args.force = "no" /\ args.checks

\* squareform(squareform(X)) has returned X
SqRoundTripped ==
    /\ pc # "squareform" => ret.status = "ok"
    /\ pc = "squareform_round_trip" => ret.value = args.X

\* C4 as stated: with the default arguments, squareform(squareform(v)) = v
\* for every condensed vector v of length d(d-1)/2, d >= 2, and
\* squareform(squareform(M)) = M for every square, symmetric, zero-diagonal
\* matrix M.
C4_RoundTripAnyMatrix ==
    (SqDefaults /\ (IsCondensed(args.X) \/ IsDistanceMatrix(args.X)))
        => SqRoundTripped

\* C4 as amended: the same, for the matrices M of dimension d >= 2 (the
\* 1 x 1 matrix [[0]] comes back as a 0 x 0 matrix).
C4_RoundTrip ==
    (SqDefaults /\ (\/ IsCondensed(args.X)
                    \/ IsDistanceMatrix(args.X) /\ args.X.shape[1] >= 2))
        => SqRoundTripped

\* a 3 x 3 distance matrix with three different distances has made the trip
C4_Witness ==
    /\ pc = "squareform_round_trip"
    /\ SqDefaults
    /\ IsDistanceMatrix(args.X)
    /\ args.X.shape = <<3, 3>>
    /\ CondensedOf(args.X).data = <<1, 2, 0>>
    /\ frame.first = CondensedOf(args.X)
    /\ ret = Ok(args.X)

\* C10: squareform honours its forcing mode: force='tomatrix' turns a valid
\* condensed vector into its square matrix, force='tovector' turns a valid
\* distance matrix into its condensed vector, without forcing the rank of
\* the input decides; a forced conversion of an input of the matching rank
\* never fails.
C10_ForceHonoured ==
    pc = "squareform_returned" =>
        /\ (IsCondensed(args.X) /\ args.force \in {"no", "tomatrix"})
              => ret = Ok(DistanceMatrix(CeilSqrt(2 * args.X.shape[1]), args.X.data))
        /\ (IsDistanceMatrix(args.X) /\ args.X.shape[1] >= 2
              /\ args.force \in {"no", "tovector"})
              => ret = Ok(CondensedOf(args.X))

\* C11: squareform of a 1-D vector of doubles, without forcing, fails with
\* an error for every length that is not d(d-1)/2 for some d >= 2, length 0
\* included, and returns a d x d matrix for every length that is.
C11_VectorLengths ==
    (pc = "squareform_returned" /\ args.force = "no"
        /\ args.X.dtype = "double" /\ Rank(args.X) = 1)
    => IF IsCondensed(args.X)
       THEN /\ ret.status = "ok"
            /\ LET d == CeilSqrt(2 * args.X.shape[1])
               IN  (d * (d - 1)) \div 2 = args.X.shape[1] /\ ret.value.shape = <<d, d>>
       ELSE ret.status = "error"

(***************************************************************************)
(* pdist(X, metric='euclidean', p=2): arithmetic on rows.  A row is the    *)
(* sequence of its components; every distance is in fixed point.           *)
(***************************************************************************)
Dot(u, v) == SumSeq([k \in 1..Len(u) |-> u[k] * v[k]])

\* the number of components in which u and v differ
DiffCount(u, v) == Cardinality({k \in 1..Len(u) : u[k] # v[k]})

\* the number of components in which u or v is not zero
NonZeroCount(u, v) == Cardinality({k \in 1..Len(u) : u[k] # 0 \/ v[k] # 0})

\* the largest element of a non-empty sequence
MaxOf(s) == CHOOSE x \in {s[k] : k \in 1..Len(s)} : \A k \in 1..Len(s) : s[k] <= x

\* scipy.sqrt(scipy.sum(X * X, axis=1))[i]
Norm(u) == Isqrt(One * One * Dot(u, u))

\* u - u.mean(), held multiplied by the number of components
Centered(u) == [k \in 1..Len(u) |-> Len(u) * u[k] - SumSeq(u)]

\* column k of X, k from 1
Column(X, k) == [i \in 1..X.shape[1] |-> At(X, i - 1, k - 1)]

\* scipy.stats.var(X, axis=0)[k] is VarNum(X, k) / VarDen(X): the sum of the
\* squared deviations over m - 1
VarNum(X, k) == X.shape[1] * Dot(Column(X, k), Column(X, k))
                  - SumSeq(Column(X, k)) * SumSeq(Column(X, k))

VarDen(X) == X.shape[1] * (X.shape[1] - 1)

\* scipy.cov(X.T)[k, l] is CovNum(X)[k, l] / VarDen(X), indices from 0
CovNum(X) ==
    [q \in (0..(X.shape[2] - 1)) \X (0..(X.shape[2] - 1)) |->
        X.shape[1] * Dot(Column(X, q[1] + 1), Column(X, q[2] + 1))
          - SumSeq(Column(X, q[1] + 1)) * SumSeq(Column(X, q[2] + 1))]

\* the determinant of the k x k matrix A, along its first row
RECURSIVE Det(_, _)
Det(A, k) ==
    IF k = 0 THEN 1
    ELSE LET Minor(c) == [q \in (0..(k - 2)) \X (0..(k - 2)) |->
                             A[q[1] + 1, IF q[2] < c THEN q[2] ELSE q[2] + 1]]
             Sign(c) == IF c % 2 = 0 THEN 1 ELSE 0 - 1
         IN  SumSeq([c \in 1..k |-> Sign(c - 1) * A[0, c - 1] * Det(Minor(c - 1), k - 1)])

\* the matrix A bordered by the vector w: w * adj(A) * w.T = -Det(Bordered)
Bordered(A, k, w) ==
    [q \in (0..k) \X (0..k) |->
        IF q[1] < k /\ q[2] < k THEN A[q[1], q[2]]
        ELSE IF q[1] = k /\ q[2] = k THEN 0
        ELSE IF q[1] = k THEN w[q[2] + 1] ELSE w[q[1] + 1]]

(***************************************************************************)
(* _cluster_wrap: the distance kernels.  Each fills dm in place, pair      *)
(* (i, j) at position k(i, j).                                             *)
(***************************************************************************)
Sub(u, v) == [k \in 1..Len(u) |-> u[k] - v[k]]

AbsSeq(u) == [k \in 1..Len(u) |-> Abs(u[k])]

euclidean_distance(u, v) == Isqrt(One * One * Dot(Sub(u, v), Sub(u, v)))

city_block_distance(u, v) == One * SumSeq(AbsSeq(Sub(u, v)))

chebyshev_distance(u, v) == One * MaxOf(AbsSeq(Sub(u, v)))

minkowski_distance(u, v, p) ==
    Iroot(Pow(One, p) * SumSeq([k \in 1..Len(u) |-> Pow(Abs(u[k] - v[k]), p)]), p)

\* the fraction of the components that differ
hamming_distance(u, v) == (One * DiffCount(u, v)) \div Len(u)

\* 1 - u.v / (|u| |v|); 0/0 is NaN
cosine_distance(u, v, nu, nv) ==
    IF nu * nv = 0 THEN NaN
    ELSE One - (One * One * One * Dot(u, v)) \div (nu * nv)

\* sqrt(sum((u - v)^2 / var)); a column without variance gives 0/0
seuclidean_distance(u, v, num, den) ==
    IF \E k \in 1..Len(u) : num[k] = 0 THEN NaN
    ELSE Isqrt(SumSeq([k \in 1..Len(u) |->
            (One * One * (u[k] - v[k]) * (u[k] - v[k]) * den) \div num[k]]))

\* dm with d[i, j] written at k(i, j) for every pair of rows
FillPairs(X, dm, d(_, _)) ==
    [dm EXCEPT !.data = [k \in 1..Len(dm.data) |->
        IF k > Cardinality(Pairs(X.shape[1])) THEN dm.data[k]
        ELSE LET q == PairAt(X.shape[1], k - 1)
             IN  d(Row(X, q[1]), Row(X, q[2]))]]

pdist_euclidean_wrap(X, dm) == FillPairs(X, dm, euclidean_distance)

pdist_city_block_wrap(X, dm) == FillPairs(X, dm, city_block_distance)

pdist_chebyshev_wrap(X, dm) == FillPairs(X, dm, chebyshev_distance)

pdist_hamming_wrap(X, dm) == FillPairs(X, dm, hamming_distance)

pdist_hamming_bool_wrap(X, dm) == FillPairs(X, dm, hamming_distance)

pdist_minkowski_wrap(X, dm, p) ==
    FillPairs(X, dm, LAMBDA u, v : minkowski_distance(u, v, p))

pdist_seuclidean_wrap(X, num, den, dm) ==
    FillPairs(X, dm, LAMBDA u, v : seuclidean_distance(u, v, num, den))

\* norms[i] is the norm of row i: the kernel divides by norms[i] * norms[j]
pdist_cosine_wrap(X, dm, norms) ==
    [dm EXCEPT !.data = [k \in 1..Len(dm.data) |->
        IF k > Cardinality(Pairs(X.shape[1])) THEN dm.data[k]
        ELSE LET q == PairAt(X.shape[1], k - 1)
             IN  cosine_distance(Row(X, q[1]), Row(X, q[2]),
                                 norms[q[1] + 1], norms[q[2] + 1])]]

(***************************************************************************)
(* pdist: the metric selectors and the functions they stand for.  A        *)
(* selector is a function object, a string, or anything else.  A function  *)
(* is known by its name: one of the three the callers of the model pass,   *)
(* or the lambda pdist makes at the line its name ends in.                 *)
(***************************************************************************)
CallerFunctions == {"caller_cityblock", "caller_weighted", "caller_strict"}

Function(name) == [kind |-> "function", name |-> name]

String(name) == [kind |-> "string", name |-> name]

\* str.lower() on the metric names the model passes
MetricLower(name) == IF name = "Euclidean" THEN "euclidean"
                     ELSE IF name = "Test_Hamming" THEN "test_hamming"
                     ELSE name

\* metric(u, v) for the function f, called within pdist(X, ..., p)
Apply(f, X, p, u, v) ==
    CASE f = "caller_cityblock" -> Ok(city_block_distance(u, v))
      [] f = "caller_weighted" -> Ok(One * (2 * u[1] + v[1]))
      [] f = "caller_strict" ->
            IF u = v THEN Raise("ValueError", 446) ELSE Ok(city_block_distance(u, v))
      [] f = "lambda508" -> Ok(euclidean_distance(u, v))
      [] f = "lambda512" ->
            Ok(seuclidean_distance(u, v, [k \in 1..Len(u) |-> VarNum(X, k)], VarDen(X)))
      [] f = "lambda516" ->
            Ok(Isqrt((One * One * VarDen(X)
                        * (0 - Det(Bordered(CovNum(X), Len(u), Sub(u, v)), Len(u) + 1)))
                     \div Det(CovNum(X), Len(u))))
      [] f = "lambda518" -> Ok(city_block_distance(u, v))
      [] f = "lambda520" -> Ok(minkowski_distance(u, v, p))
      [] f = "lambda522" -> Ok(cosine_distance(u, v, Norm(u), Norm(v)))
      [] f = "lambda529" ->
            Ok(cosine_distance(Centered(u), Centered(v),
                               Norm(Centered(u)), Norm(Centered(v))))
      [] f = "lambda536" -> Ok(hamming_distance(u, v))
      \* integer division of two counts; numpy gives 0 for a zero divisor
      [] f = "lambda539" ->
            Ok(IF NonZeroCount(u, v) = 0 THEN 0
               ELSE One * (DiffCount(u, v) \div NonZeroCount(u, v)))
      [] f = "lambda545" -> Ok(chebyshev_distance(u, v))

(***************************************************************************)
(* pdist: lines 429-550.  PdistDispatch is the function up to the point    *)
(* where it either returns (or raises) or enters the loop of lines         *)
(* 443-447 with a function f; the test_ metrics and mahalanobis reach that *)
(* loop through the call pdist(X, lambda).                                 *)
(***************************************************************************)
Return(r, wrap) ==
    [kind |-> "return", ret |-> r, f |-> "",
     calls |-> IF wrap = "" THEN <<>>
               ELSE <<[fn |-> wrap, u |-> <<>>, v |-> <<>>, k |-> 0 - 1]>>]

Loop(f) == [kind |-> "loop", ret |-> Pending, f |-> f, calls |-> <<>>]

\* dm[xrange(0,m), xrange(0,m)] = 0
ZeroDiagonal(M) ==
    MatOf(M.shape[1], M.shape[2],
          [q \in (0..(M.shape[1] - 1)) \X (0..(M.shape[2] - 1)) |->
              IF q[1] = q[2] THEN 0 ELSE At(M, q[1], q[2])])

\* lines 485-493: 1 - scipy.dot(X, X.T) / scipy.dot(nV, nV.T)
CosineMatrix(X) ==
    MatOf(X.shape[1], X.shape[1],
          [q \in (0..(X.shape[1] - 1)) \X (0..(X.shape[1] - 1)) |->
              cosine_distance(Row(X, q[1]), Row(X, q[2]),
                              Norm(Row(X, q[1])), Norm(Row(X, q[2])))])

\* lines 502-503: scipy.dot(scipy.dot(X, scipy.cov(X.T)), X.T)
StubMahalanobisMatrix(X) ==
    MatOf(X.shape[1], X.shape[1],
          [q \in (0..(X.shape[1] - 1)) \X (0..(X.shape[1] - 1)) |->
              IF VarDen(X) = 0 THEN NaN
              ELSE (One * SumSeq([k \in 1..X.shape[2] |->
                        SumSeq([l \in 1..X.shape[2] |->
                            At(X, q[1], k - 1) * CovNum(X)[k - 1, l - 1]
                              * At(X, q[2], l - 1)])])) \div VarDen(X)])

\* line 497: X - repmat(mean(X, axis=1)), each row held multiplied by n
CenteredRows(X) ==
    MatOf(X.shape[1], X.shape[2],
          [q \in (0..(X.shape[1] - 1)) \X (0..(X.shape[2] - 1)) |->
              Centered(Row(X, q[1]))[q[2] + 1]])

Norms(X) == [i \in 1..X.shape[1] |-> Norm(Row(X, i - 1))]

\* lines 463-469: the branch of the metric 'jaccard'
PdistJaccard(X, dm) ==
    IF X.dtype = "double" THEN Return(Ok(pdist_hamming_wrap(X, dm)), "pdist_hamming_wrap")
    ELSE IF X.dtype = "bool"
    THEN Return(Ok(pdist_hamming_bool_wrap(X, dm)), "pdist_hamming_bool_wrap")
    ELSE Return(Raise("AttributeError", 469), "")

\* lines 448-547: the metric is a string
PdistString(X, name, p, dm) ==
    LET mstr == MetricLower(name)
        m == X.shape[1]
        n == X.shape[2]
    IN  \* lines 450-451 build an AttributeError and drop it
        IF mstr \in {"euclidean", "euclid", "eu", "e"}
        THEN Return(Ok(pdist_euclidean_wrap(X, dm)), "pdist_euclidean_wrap")
        ELSE IF mstr \in {"cityblock", "cblock", "cb", "c"}
        THEN Return(Ok(pdist_city_block_wrap(X, dm)), "pdist_city_block_wrap")
        ELSE IF mstr \in {"hamming", "hamm", "ha", "h"}
        THEN IF X.dtype = "double"
             THEN Return(Ok(pdist_hamming_wrap(X, dm)), "pdist_hamming_wrap")
             ELSE IF X.dtype = "bool"
             THEN Return(Ok(pdist_hamming_bool_wrap(X, dm)), "pdist_hamming_bool_wrap")
             ELSE Return(Raise("AttributeError", 462), "")
        ELSE IF mstr \in {"jaccard", "jacc", "ja", "j"}
        THEN PdistJaccard(X, dm)
        ELSE IF mstr \in {"chebyshev", "cheby", "cheb", "ch"}
        THEN Return(Ok(pdist_chebyshev_wrap(X, dm)), "pdist_chebyshev_wrap")
        ELSE IF mstr \in {"minkowski", "mi", "m"}
        THEN Return(Ok(pdist_minkowski_wrap(X, dm, p)), "pdist_minkowski_wrap")
        ELSE IF mstr \in {"seuclidean", "se", "s"}
        THEN Return(Ok(pdist_seuclidean_wrap(X, [k \in 1..n |-> VarNum(X, k)],
                                             VarDen(X), dm)),
                    "pdist_seuclidean_wrap")
        ELSE IF mstr \in {"cosine_old", "cos_old"}
        THEN Return(Ok(pdist_cosine_wrap(X, dm, Norms(X))), "pdist_cosine_wrap")
        ELSE IF mstr \in {"cosine", "cos"}
        THEN Return(squareform(ZeroDiagonal(CosineMatrix(X)), "no", TRUE), "")
        ELSE IF mstr \in {"correlation", "co"}
        THEN Return(Ok(pdist_cosine_wrap(CenteredRows(X), dm, Norms(CenteredRows(X)))),
                    "pdist_cosine_wrap")
        ELSE IF mstr \in {"stub_mahalanobis"}
        THEN Return(squareform(ZeroDiagonal(StubMahalanobisMatrix(X)), "no", FALSE), "")
        ELSE IF name = "test_euclidean" THEN Loop("lambda508")
        ELSE IF name = "test_seuclidean"
        THEN \* scipy.linalg.inv refuses NaN and a singular matrix
             IF m < 2 THEN Return(Raise("ValueError", 511), "")
             ELSE IF \E k \in 1..n : VarNum(X, k) = 0
             THEN Return(Raise("LinAlgError", 511), "")
             ELSE Loop("lambda512")
        ELSE IF name = "mahalanobis"
        THEN \* scipy.cov of one column is no matrix
             IF n = 1 \/ m < 2 THEN Return(Raise("ValueError", 515), "")
             ELSE IF Det(CovNum(X), n) = 0
             THEN Return(Raise("LinAlgError", 515), "")
             ELSE Loop("lambda516")
        ELSE IF name = "test_cityblock" THEN Loop("lambda518")
        ELSE IF name = "test_minkowski" THEN Loop("lambda520")
        ELSE IF name = "test_cosine" THEN Loop("lambda522")
        ELSE IF name = "test_correlation" THEN Loop("lambda529")
        ELSE IF name = "test_hamming" THEN Loop("lambda536")
        ELSE IF name = "test_jaccard" THEN Loop("lambda539")
        ELSE IF name = "test_chebyshev" THEN Loop("lambda545")
        ELSE Return(Raise("AttributeError", 547), "")

\* line 439 with m * (m + 1) / 2 elements
PdistAlloc_WithDiagonal(m) == Zeros1((m * (m + 1)) \div 2)

\* line 439: scipy.zeros((m * (m - 1) / 2,), dtype='double')
PdistAlloc(m) == Zeros1((m * (m - 1)) \div 2)

PdistDispatch(X, metric, p) ==
    IF Len(X.shape) # 2 THEN Return(Raise("AttributeError", 435), "")
    ELSE IF metric.kind = "function" THEN Loop(metric.name)
    ELSE IF metric.kind = "string"
    THEN PdistString(X, metric.name, p, PdistAlloc(X.shape[1]))
    ELSE Return(Raise("AttributeError", 549), "")

(***************************************************************************)
(* pdist: the loop of lines 443-447.  Its frame holds f, the loop          *)
(* variables i, j and k, and dm.                                           *)
(***************************************************************************)
\* the frame on entering the loop: i is the first element of xrange(0, m - 1)
LoopFrame(X, f) == [f |-> f, i |-> 0, j |-> 1, k |-> 0, dm |-> PdistAlloc(X.shape[1])]

\* xrange(0, m - 1) is exhausted
LoopDone(X, fr) == fr.i >= X.shape[1] - 1

\* lines 446-447 without k = k + 1
LoopStore_SameSlot(X, fr, value) ==
    [fr EXCEPT !.dm.data[fr.k + 1] = value,
               !.j = IF fr.j + 1 < X.shape[1] THEN fr.j + 1 ELSE fr.i + 2,
               !.i = IF fr.j + 1 < X.shape[1] THEN fr.i ELSE fr.i + 1]

\* line 446, dm[k] = value, and the step of the two xranges
LoopStore(X, fr, value) ==
    [fr EXCEPT !.dm.data[fr.k + 1] = value,
               !.k = fr.k + 1,
               !.j = IF fr.j + 1 < X.shape[1] THEN fr.j + 1 ELSE fr.i + 2,
               !.i = IF fr.j + 1 < X.shape[1] THEN fr.i ELSE fr.i + 1]

RECURSIVE PdistLoop(_, _, _)
PdistLoop(X, p, fr) ==
    IF LoopDone(X, fr) THEN Ok(fr.dm)
    ELSE LET r == Apply(fr.f, X, p, Row(X, fr.i), Row(X, fr.j))
         IN  IF r.status = "error" THEN r
             ELSE PdistLoop(X, p, LoopStore(X, fr, r.value))

\* the whole call, as the other functions of the module use it
pdist(X, metric, p) ==
    LET e == PdistDispatch(X, metric, p)
    IN  IF e.kind = "return" THEN e.ret ELSE PdistLoop(X, p, LoopFrame(X, e.f))

(***************************************************************************)
(* The callers of pdist: every observation matrix of up to MaxRows rows    *)
(* and of ObsCols columns over XVals, and one vector; every selector below. *)
(***************************************************************************)
MetricNames ==
    {"euclidean", "e", "Euclidean", "cityblock", "hamming", "jaccard", "chebyshev",
     "minkowski", "seuclidean", "cosine_old", "cosine", "correlation",
     "stub_mahalanobis", "test_euclidean", "test_seuclidean", "mahalanobis",
     "test_cityblock", "test_minkowski", "test_cosine", "test_correlation",
     "test_hamming", "Test_Hamming", "test_jaccard", "test_chebyshev", "canberra"}

MetricSelectors ==
    {Function(f) : f \in CallerFunctions} \cup {String(name) : name \in MetricNames}
    \cup {[kind |-> "other", name |-> "None"]}

\* the m x n arrays passed as X; no column stands for the one vector passed
ObservationMatrices(m, n) ==
    IF n = 0 THEN {Vec(<<0, 1, 1>>)}
    ELSE {[Mat(m, n, q[1]) EXCEPT !.dtype = q[2]] :
             q \in [1..(m * n) -> XVals] \X {"double", "bool", "int"}}

\* the calls made: p is passed for the Minkowski metrics only, arrays that
\* hold no doubles are passed with three of the metrics
PdistCalls(m, n) ==
    {a \in [X : ObservationMatrices(m, n), metric : MetricSelectors, p : {1, 2}] :
        /\ a.p = 2 \/ a.metric.name \in {"minkowski", "test_minkowski"}
        /\ a.X.dtype = "double" \/ a.metric \in {String("hamming"), String("jaccard"),
                                                  String("euclidean")}
        /\ Rank(a.X) = 2 \/ a.metric = String("euclidean")}

PdistInit ==
    /\ pc = "pdist"
    /\ \E m \in 0..MaxRows, n \in ObsCols \cup {0} : args \in PdistCalls(m, n)
    /\ frame = <<>>
    /\ calls = <<>>
    /\ ret = Pending

\* lines 429-442 and, for a string, the whole of lines 448-547
PdistEnter ==
    /\ pc = "pdist"
    /\ LET e == PdistDispatch(args.X, args.metric, args.p)
       IN  IF e.kind = "return"
           THEN /\ pc' = "pdist_returned"
                /\ ret' = e.ret
                /\ calls' = calls \o e.calls
                /\ frame' = frame
           ELSE /\ pc' = "pdist_loop"
                /\ frame' = LoopFrame(args.X, e.f)
                /\ UNCHANGED <<ret, calls>>
    /\ UNCHANGED args

\* one pass through lines 445-447: metric(X[i, :], X[j, :]) is called
PdistIterate ==
    /\ pc = "pdist_loop"
    /\ ~LoopDone(args.X, frame)
    /\ LET u == Row(args.X, frame.i)
           v == Row(args.X, frame.j)
           r == Apply(frame.f, args.X, args.p, u, v)
       IN  /\ calls' = Append(calls, [fn |-> frame.f, u |-> u, v |-> v, k |-> frame.k])
           /\ IF r.status = "error"
              THEN pc' = "pdist_returned" /\ ret' = r /\ frame' = frame
              ELSE pc' = pc /\ ret' = ret /\ frame' = LoopStore(args.X, frame, r.value)
    /\ UNCHANGED args

\* line 550, reached from the loop
PdistReturn ==
    /\ pc = "pdist_loop"
    /\ LoopDone(args.X, frame)
    /\ pc' = "pdist_returned"
    /\ ret' = Ok(frame.dm)
    /\ UNCHANGED <<args, frame, calls>>

PdistNext == PdistEnter \/ PdistIterate \/ PdistReturn

SpecPdist == PdistInit /\ [][PdistNext]_vars

(***************************************************************************)
(* Claims about pdist.                                                     *)
(***************************************************************************)
\* pdist has returned from a call on a 2-D matrix
PdistReturned == pc = "pdist_returned" /\ Rank(args.X) = 2

\* C3: for every m x n observation matrix with m >= 2 and every accepted
\* metric selector, a successful pdist call returns a one-dimensional
\* vector of length exactly m(m-1)/2.
C3_PdistLength ==
    (PdistReturned /\ args.X.shape[1] >= 2 /\ ret.status = "ok") =>
        /\ Rank(ret.value) = 1
        /\ ret.value.shape[1] = (args.X.shape[1] * (args.X.shape[1] - 1)) \div 2
        /\ Len(ret.value.data) = ret.value.shape[1]

\* the matrix-form cosine path has returned the three distances of three
\* observations
C3_Witness ==
    /\ PdistReturned
    /\ args.metric = String("cosine")
    /\ args.X.shape = <<3, 2>>
    /\ ret.status = "ok"
    /\ ret.value.shape = <<3>>

\* C8: pdist fails with an error whenever the observation matrix has fewer
\* than 2 rows, for every metric selector; it never returns an empty
\* distance vector.
C8_FewRowsRejected ==
    (PdistReturned /\ args.X.shape[1] < 2) => ret.status = "error"

\* the Jaccard distance of the docstring (lines 390-395): of the components
\* where u or v is not zero, the fraction where they differ; 0 if there is none
JaccardDistance(u, v) ==
    IF NonZeroCount(u, v) = 0 THEN 0
    ELSE (One * DiffCount(u, v)) \div NonZeroCount(u, v)

\* C9: for metric jaccard, every entry of the vector pdist returns for rows
\* u, v is the number of components where u and v differ divided by the
\* number of components where at least one of them is non-zero (0 when that
\* number is 0).
C9_JaccardEntries ==
    (PdistReturned /\ args.metric.kind = "string"
        /\ MetricLower(args.metric.name) = "jaccard" /\ ret.status = "ok") =>
        \A q \in Pairs(args.X.shape[1]) :
            ret.value.data[PairIndex(args.X.shape[1], q[1], q[2]) + 1]
                = JaccardDistance(Row(args.X, q[1]), Row(args.X, q[2]))

\* the pairs (i, j), i < j < m, from (i, j) on: i ascending, then j ascending
RECURSIVE PairsFrom(_, _, _)
PairsFrom(m, i, j) ==
    IF i >= m - 1 THEN <<>>
    ELSE IF j >= m THEN PairsFrom(m, i + 1, i + 2)
    ELSE <<<<i, j>>>> \o PairsFrom(m, i, j + 1)

\* pdist(X, f) has returned a vector for a function f
FunctionReturned ==
    /\ PdistReturned
    /\ args.metric.kind = "function"
    /\ ret.status = "ok"

\* C15: with a caller-supplied function f, pdist on an m-row matrix calls f
\* once for each pair (i, j), i < j, as f(row i, row j), i ascending then j
\* ascending, and stores the result unchanged at index
\* k(i, j) = i*m - i(i+1)/2 + (j - i - 1); on return every index
\* 0 .. m(m-1)/2 - 1 has been written exactly once.
C15_FunctionCalls ==
    FunctionReturned =>
        LET m == args.X.shape[1]
            ps == PairsFrom(m, 0, 1)
        IN  /\ Len(calls) = Len(ps)
            /\ Len(ret.value.data) = (m * (m - 1)) \div 2
            /\ \A c \in 1..Len(ps) :
                   LET u == Row(args.X, ps[c][1])
                       v == Row(args.X, ps[c][2])
                       k == ps[c][1] * m - (ps[c][1] * (ps[c][1] + 1)) \div 2
                              + (ps[c][2] - ps[c][1] - 1)
                   IN  /\ calls[c] = [fn |-> args.metric.name, u |-> u, v |-> v, k |-> k]
                       /\ ret.value.data[k + 1] = Apply(args.metric.name, args.X, args.p, u, v).value
            /\ \A k \in 0..((m * (m - 1)) \div 2 - 1) :
                   Cardinality({c \in 1..Len(calls) : calls[c].k = k}) = 1

\* pdist has returned for three observations and a function that is not
\* symmetric, 2 u[0] + v[0]: three calls, three different distances
C15_Witness ==
    /\ FunctionReturned
    /\ args.metric = Function("caller_weighted")
    /\ args.X.shape = <<3, 1>>
    /\ args.X.data = <<0, 1, 0>>
    /\ Len(calls) = 3
    /\ ret.value.data = <<One, 0, 2 * One>>

(***************************************************************************)
(* linkage(y, method='single', metric='euclidean'): lines 136-174.         *)
(* LinkageDispatch is the function up to the call of the extension module: *)
(* it raises, or it has Z allocated and the distances dm ready.  `calls'   *)
(* lists what it has called by then.                                       *)
(***************************************************************************)
\* lines 44-45: the codes of the methods
cpy_non_euclid_methods ==
    [m \in {"single", "complete", "average", "weighted"} |->
        CASE m = "single" -> 0 [] m = "complete" -> 1 [] m = "average" -> 2
          [] m = "weighted" -> 6]

cpy_euclid_methods ==
    [m \in {"centroid", "median", "ward"} |->
        CASE m = "centroid" -> 3 [] m = "median" -> 4 [] m = "ward" -> 5]

\* line 46
cpy_linkage_methods == DOMAIN cpy_non_euclid_methods \cup DOMAIN cpy_euclid_methods

Called(fn) == [fn |-> fn, u |-> <<>>, v |-> <<>>, k |-> 0 - 1]

LinkageRaise(exc, line, made) ==
    [kind |-> "return", ret |-> Raise(exc, line), calls |-> made,
     wrap |-> "", dm |-> <<>>, Z |-> <<>>, n |-> 0, code |-> 0]

LinkageWrap(wrap, dm, Z, n, code, made) ==
    [kind |-> "wrap", ret |-> Pending, calls |-> Append(made, Called(wrap)),
     wrap |-> wrap, dm |-> dm, Z |-> Z, n |-> n, code |-> code]

\* lines 150, 161, 171 with a row too many: scipy.zeros((n, 4))
LinkageAlloc_ExtraRow(n) == Zeros2(n, 4)

\* lines 150, 161, 171: scipy.zeros((n - 1, 4))
LinkageAlloc(n) == Zeros2(n - 1, 4)

\* lines 144-152: y is a vector
LinkageVector(y, method) ==
    LET s == y.shape
        d == CeilSqrt(s[1] * 2)
    IN  IF (d * (d - 1)) \div 2 # s[1] THEN LinkageRaise("AttributeError", 147, <<>>)
        ELSE IF method \notin DOMAIN cpy_non_euclid_methods
        THEN LinkageRaise("AttributeError", 149, <<>>)
        \* scipy.zeros refuses a negative dimension
        ELSE IF d - 1 < 0 THEN LinkageRaise("ValueError", 150, <<>>)
        ELSE LinkageWrap("linkage_wrap", y, LinkageAlloc(d), d,
                         cpy_non_euclid_methods[method], <<>>)

\* line 165 with == for !=
MetricRefused_Inverted(metric) == metric = String("euclidean")

\* line 165: metric != 'euclidean'
MetricRefused(metric) == metric # String("euclidean")

\* lines 153-173: y is a matrix of observations
LinkageMatrix(X, method, metric) ==
    LET s == X.shape
        n == s[1]
        dm == pdist(X, metric, 2)
    IN  IF method \notin cpy_linkage_methods
        THEN LinkageRaise("AttributeError", 158, <<>>)
        ELSE IF method \in DOMAIN cpy_non_euclid_methods
        THEN IF dm.status = "error"
             THEN LinkageRaise(dm.exc, dm.line, <<Called("pdist")>>)
             ELSE IF n - 1 < 0
             THEN LinkageRaise("ValueError", 161, <<Called("pdist")>>)
             ELSE LinkageWrap("linkage_wrap", dm.value, LinkageAlloc(n), n,
                              cpy_non_euclid_methods[method], <<Called("pdist")>>)
        \* line 166 formats the shape s, a pair, with one %s: a TypeError
        ELSE IF MetricRefused(metric)
        THEN LinkageRaise("TypeError", 166, <<>>)
        ELSE IF dm.status = "error"
        THEN LinkageRaise(dm.exc, dm.line, <<Called("pdist")>>)
        ELSE IF n - 1 < 0
        THEN LinkageRaise("ValueError", 171, <<Called("pdist")>>)
        ELSE LinkageWrap("linkage_euclid_wrap", dm.value, LinkageAlloc(n), n,
                         cpy_euclid_methods[method], <<Called("pdist")>>)

LinkageDispatch(y, method, metric) ==
    IF method.kind # "string" THEN LinkageRaise("AttributeError", 140, <<>>)
    ELSE IF y.dtype # "double" THEN LinkageRaise("AttributeError", 142, <<>>)
    ELSE IF Len(y.shape) = 1 THEN LinkageVector(y, method.name)
    ELSE IF Len(y.shape) = 2 THEN LinkageMatrix(y, method.name, metric)
    \* neither branch has bound Z for the return of line 174
    ELSE LinkageRaise("UnboundLocalError", 174, <<>>)

(***************************************************************************)
(* _cluster_wrap.linkage_wrap and linkage_euclid_wrap: the agglomeration.  *)
(* The forest is the set `live' of the ids of the clusters not yet merged, *)
(* with the size of every cluster and the table D of the distances         *)
(* between live clusters; round i merges the closest pair into cluster     *)
(* n + i and writes row i of Z.  linkage_wrap starts from the distances    *)
(* dm; linkage_euclid_wrap works on the squares of the Euclidean distances *)
(* of the rows of X and keeps a centroid per cluster.                      *)
(***************************************************************************)
\* the pair of two different ids, smaller first
Pair(a, b) == IF a < b THEN <<a, b>> ELSE <<b, a>>

LivePairs(live) == {q \in live \X live : q[1] < q[2]}

Forest(e, X) ==
    [wrap |-> e.wrap, code |-> e.code, n |-> e.n, Z |-> e.Z, round |-> 0,
     live |-> 0..(e.n - 1),
     size |-> [i \in 0..(e.n - 1) |-> 1],
     cent |-> IF e.wrap = "linkage_euclid_wrap"
              THEN [i \in 0..(e.n - 1) |-> [k \in 1..X.shape[2] |-> One * At(X, i, k - 1)]]
              ELSE <<>>,
     D |-> [q \in LivePairs(0..(e.n - 1)) |->
              IF e.wrap = "linkage_euclid_wrap"
              THEN One * One * Dot(Sub(Row(X, q[1]), Row(X, q[2])),
                                   Sub(Row(X, q[1]), Row(X, q[2])))
              ELSE e.dm.data[PairIndex(e.n, q[1], q[2]) + 1]]]

\* the closest pair; among equally close pairs the first in the scan order
ClosestPair(fr) ==
    CHOOSE q \in LivePairs(fr.live) : \A r \in LivePairs(fr.live) :
        \/ fr.D[q] < fr.D[r]
        \/ fr.D[q] = fr.D[r] /\ (q[1] < r[1] \/ (q[1] = r[1] /\ q[2] <= r[2]))

\* the centroid of the cluster made of s and t
MergedCentroid(fr, s, t) ==
    IF fr.code = 4
    THEN [k \in 1..Len(fr.cent[s]) |-> (fr.cent[s][k] + fr.cent[t][k]) \div 2]
    ELSE [k \in 1..Len(fr.cent[s]) |->
            (fr.size[s] * fr.cent[s][k] + fr.size[t] * fr.cent[t][k])
                \div (fr.size[s] + fr.size[t])]

\* dist(q, u) for the cluster q made of s and t and a remaining cluster u
LanceWilliams(fr, s, t, u) ==
    LET dsu == fr.D[Pair(s, u)]
        dtu == fr.D[Pair(t, u)]
        dst == fr.D[Pair(s, t)]
        ns == fr.size[s]
        nt == fr.size[t]
        nu == fr.size[u]
        c == MergedCentroid(fr, s, t)
    IN  CASE fr.code = 0 -> (dsu + dtu - Abs(dsu - dtu)) \div 2
          [] fr.code = 1 -> (dsu + dtu + Abs(dsu - dtu)) \div 2
          [] fr.code = 2 -> (ns * dsu + nt * dtu) \div (ns + nt)
          [] fr.code = 6 -> (dsu + dtu) \div 2
          [] fr.code = 5 ->
                ((nu + ns) * dsu + (nu + nt) * dtu - nu * dst) \div (nu + ns + nt)
          [] fr.code \in {3, 4} -> Dot(Sub(c, fr.cent[u]), Sub(c, fr.cent[u]))

\* the distance a row of Z reports for a table entry
Reported(fr, d) == IF fr.wrap = "linkage_euclid_wrap" THEN Isqrt(d) ELSE d

\* Z with row i set to the four numbers of `row'
WithRow(Z, i, row) ==
    [Z EXCEPT !.data = [k \in 1..Len(Z.data) |->
        IF (k - 1) \div Z.shape[2] = i THEN row[((k - 1) % Z.shape[2]) + 1]
        ELSE Z.data[k]]]

\* one round: merge the closest pair (s, t) into cluster n + round
Merge(fr) ==
    LET st == ClosestPair(fr)
        s == st[1]
        t == st[2]
        q == fr.n + fr.round
        rest == fr.live \ {s, t}
    IN  [fr EXCEPT
            !.Z = WithRow(fr.Z, fr.round,
                          <<s, t, Reported(fr, fr.D[st]), fr.size[s] + fr.size[t]>>),
            !.round = fr.round + 1,
            !.live = rest \cup {q},
            !.size = [i \in 0..q |-> IF i = q THEN fr.size[s] + fr.size[t]
                                     ELSE fr.size[i]],
            !.cent = IF fr.wrap = "linkage_euclid_wrap"
                     THEN [i \in 0..q |-> IF i = q THEN MergedCentroid(fr, s, t)
                                          ELSE fr.cent[i]]
                     ELSE fr.cent,
            !.D = [r \in LivePairs(rest \cup {q}) |->
                      IF r[2] = q THEN LanceWilliams(fr, s, t, r[1]) ELSE fr.D[r]]]

(***************************************************************************)
(* The callers of linkage: every vector over DistVals of up to             *)
(* MaxObs(MaxObs-1)/2 distances, every observation matrix of up to MaxObs  *)
(* rows over XVals, every method and the metrics below.                    *)
(***************************************************************************)
DistVals == {One, 2 * One}

LinkageMethods ==
    {String(m) : m \in cpy_linkage_methods \cup {"nearest"}}
    \cup {[kind |-> "other", name |-> "None"]}

LinkageMetrics ==
    {String("euclidean"), String("e"), String("cityblock"), String("canberra"),
     Function("caller_cityblock")}

LinkageVectors(l) == {Vec(v) : v \in [1..l -> DistVals]}

LinkageMatrices(n, m) == {Mat(n, m, x) : x \in [1..(n * m) -> XVals]}

\* the calls made with an array of l numbers in m columns; no column stands
\* for a vector, and for the two arrays that are neither
LinkageCalls(l, m) ==
    IF m = 0 /\ l > (MaxObs * (MaxObs - 1)) \div 2 THEN {}
    ELSE IF m = 0
    THEN [y : LinkageVectors(l), method : LinkageMethods, metric : {String("euclidean")}]
         \cup {[y |-> y, method |-> String("single"), metric |-> String("euclidean")] :
                 y \in {[Vec(<<One>>) EXCEPT !.dtype = "int"],
                        [dtype |-> "double", shape |-> <<1, 1, 1>>, data |-> <<One>>]}}
    ELSE IF l % m = 0 /\ l \div m <= MaxObs
    THEN [y : LinkageMatrices(l \div m, m), method : LinkageMethods, metric : LinkageMetrics]
    ELSE {}

LinkageInit ==
    /\ pc = "linkage"
    /\ \E l \in 0..Max2(2 * MaxObs, (MaxObs * (MaxObs - 1)) \div 2), m \in LinkCols \cup {0} :
          args \in LinkageCalls(l, m)
    /\ frame = <<>>
    /\ calls = <<>>
    /\ ret = Pending

\* lines 136-173 up to the call of the extension module
LinkageEnter ==
    /\ pc = "linkage"
    /\ LET e == LinkageDispatch(args.y, args.method, args.metric)
       IN  /\ calls' = calls \o e.calls
           /\ IF e.kind = "return"
              THEN pc' = "linkage_returned" /\ ret' = e.ret /\ frame' = frame
              ELSE pc' = "linkage_wrap" /\ ret' = ret /\ frame' = Forest(e, args.y)
    /\ UNCHANGED args

\* one round of the agglomeration
LinkageMerge ==
    /\ pc = "linkage_wrap"
    /\ frame.round < frame.n - 1
    /\ frame' = Merge(frame)
    /\ UNCHANGED <<pc, args, calls, ret>>

\* line 174, once one cluster is left
LinkageReturn ==
    /\ pc = "linkage_wrap"
    /\ frame.round >= frame.n - 1
    /\ pc' = "linkage_returned"
    /\ ret' = Ok(frame.Z)
    /\ UNCHANGED <<args, frame, calls>>

LinkageNext == LinkageEnter \/ LinkageMerge \/ LinkageReturn

SpecLinkage == LinkageInit /\ [][LinkageNext]_vars

(***************************************************************************)
(* Claims about linkage.                                                   *)
(***************************************************************************)
\* the number of observations of the call
Observed(y) ==
    IF Rank(y) = 1
    THEN CHOOSE d \in 2..(y.shape[1] + 1) : (d * (d - 1)) \div 2 = y.shape[1]
    ELSE y.shape[1]

\* a valid call for n >= 2 observations: a condensed vector with a
\* distance-vector method, or a matrix of n rows with any of the seven
\* methods and a metric the method accepts
ValidLinkageCall ==
    /\ args.method.kind = "string"
    /\ \/ /\ IsCondensed(args.y)
          /\ args.method.name \in {"single", "complete", "average", "weighted"}
       \/ /\ args.y.dtype = "double" /\ Rank(args.y) = 2 /\ args.y.shape[1] >= 2
          /\ \/ /\ args.method.name \in {"single", "complete", "average", "weighted"}
                /\ args.metric \in {String("euclidean"), String("e"), String("cityblock"),
                                    Function("caller_cityblock")}
             \/ /\ args.method.name \in {"centroid", "median", "ward"}
                /\ args.metric = String("euclidean")

\* the count of cluster id according to Z: 1 for an original observation
CountOf(Z, n, id) == IF id < n THEN 1 ELSE At(Z, id - n, 3)

\* Z is the linkage matrix of n observations
IsLinkageMatrix(Z, n) ==
    /\ Z.shape = <<n - 1, 4>>
    /\ Len(Z.data) = 4 * (n - 1)
    /\ \A id \in 0..(2 * n - 3) :
          Cardinality({q \in (0..(n - 2)) \X {0, 1} : At(Z, q[1], q[2]) = id}) = 1
    /\ \A i \in 0..(n - 2) :
          /\ At(Z, i, 0) < n + i /\ At(Z, i, 1) < n + i
          /\ At(Z, i, 2) >= 0 /\ At(Z, i, 3) >= 0
          /\ At(Z, i, 3) = CountOf(Z, n, At(Z, i, 0)) + CountOf(Z, n, At(Z, i, 1))

\* C1: for every valid input with n >= 2 observations linkage returns a
\* matrix Z of n-1 rows and 4 columns in which every id in [0, 2n-2) appears
\* exactly once in columns 0-1, row i references only ids below n+i, all
\* distances and counts are non-negative, and the count of row i is the sum
\* of the counts of its two clusters.
C1_LinkageMatrix ==
    (ValidLinkageCall /\ pc = "linkage_returned") =>
        ret.status = "ok" /\ IsLinkageMatrix(ret.value, Observed(args.y))

\* ward on four observations has merged two clusters of two
C1_Witness ==
    /\ ValidLinkageCall
    /\ pc = "linkage_returned"
    /\ args.method = String("ward")
    /\ args.y.shape = <<4, 2>>
    /\ ret.status = "ok"
    /\ At(ret.value, 2, 0) = 4 /\ At(ret.value, 2, 1) = 5
    /\ At(ret.value, 2, 2) > 0 /\ At(ret.value, 2, 3) = 4

\* centroid, median or ward, called on a vector or with another metric
EuclidMisuse ==
    /\ args.method.kind = "string"
    /\ args.method.name \in {"centroid", "median", "ward"}
    /\ \/ Rank(args.y) = 1
       \/ Rank(args.y) = 2 /\ args.metric # String("euclidean")

\* C2: linkage with method centroid, median or ward fails, before any
\* distance computation or clustering call, whenever it is given a 1-D
\* vector or a matrix with a metric other than euclidean; no linkage matrix
\* is returned.
C2_EuclidOnly ==
    EuclidMisuse =>
        /\ calls = <<>>
        /\ pc # "linkage_wrap"
        /\ pc = "linkage_returned" => ret.status = "error"

\* ward with the cityblock metric on three observations has been refused
C2_Witness ==
    /\ pc = "linkage_returned"
    /\ args.method = String("ward")
    /\ args.metric = String("cityblock")
    /\ args.y.shape = <<3, 2>>
    /\ ret = Raise("TypeError", 166)
    /\ calls = <<>>

(***************************************************************************)
(* totree(Z): lines 203-254.  The frame holds n, the dictionary d of the   *)
(* nodes built so far, the loop variable i and nd.  A node is a cnode: id, *)
(* the ids of its children (None for a leaf), dist and count.              *)
(***************************************************************************)
None == 0 - 1

\* cnode(id, left, right, dist, count), lines 178-183
cnode(id, left, right, dist, count) ==
    [id |-> id, left |-> left, right |-> right, dist |-> dist, count |-> count]

\* the truth value Python takes of an array in `if a:': that of its element
\* if it has one, False if it has none; numpy refuses to give one otherwise
TruthOf(a) ==
    IF Len(a) = 0 THEN "False"
    ELSE IF Len(a) = 1 THEN (IF a[1] THEN "True" ELSE "False")
    ELSE "ValueError"

\* Z[:, c]
ZColumn(Z, c) == [i \in 1..Z.shape[1] |-> At(Z, i - 1, c)]

\* Z[:, 0:2]: the cells of the two id columns
IdCells(Z) == (0..(Z.shape[1] - 1)) \X {0, 1}

\* scipy.unique(Z[:, 0:2].reshape(...)), smallest first
RECURSIVE Sorted(_)
Sorted(S) ==
    IF S = {} THEN <<>>
    ELSE LET x == CHOOSE x \in S : \A y \in S : x <= y
         IN  <<x>> \o Sorted(S \ {x})

UniqueIds(Z) == Sorted({At(Z, q[1], q[2]) : q \in IdCells(Z)})

\* lines 203-234: what totree checks before it builds a node
TotreeValidate(Z) ==
    IF Z.dtype # "double" THEN Raise("AttributeError", 207)
    ELSE IF Len(Z.shape) # 2 THEN Raise("AttributeError", 209)
    ELSE IF Z.shape[2] # 4 THEN Raise("AttributeError", 212)
    ELSE LET n == Z.shape[1] + 1
             U == UniqueIds(Z)
             \* line 223: an array compared with a number, taken as a condition
             reused == TruthOf([k \in 1..Len(U) |-> U[k] # 2 * (n - 1)])
             negdist == TruthOf([k \in 1..(n - 1) |-> ZColumn(Z, 2)[k] < 0])
             negcount == TruthOf([k \in 1..(n - 1) |-> ZColumn(Z, 3)[k] < 0])
         IN  IF reused = "ValueError" THEN Raise("ValueError", 223)
             ELSE IF reused = "True" THEN Raise("AttributeError", 224)
             ELSE IF \E q \in IdCells(Z) : At(Z, q[1], q[2]) >= 2 * n - 1
             THEN Raise("AttributeError", 227)
             ELSE IF \E q \in IdCells(Z) : At(Z, q[1], q[2]) < 0
             THEN Raise("AttributeError", 229)
             ELSE IF negdist = "ValueError" THEN Raise("ValueError", 230)
             ELSE IF negdist = "True" THEN Raise("AttributeError", 231)
             ELSE IF negcount = "ValueError" THEN Raise("ValueError", 233)
             ELSE IF negcount = "True" THEN Raise("AttributeError", 234)
             ELSE Ok(n)

\* lines 237-238: the nodes of the n original objects
TotreeLeafNodes(n) == [i \in 0..(n - 1) |-> cnode(i, None, None, 0, 1)]

\* line 242 with xrange(0, n - 2)
TotreeRounds_Short(n) == n - 2

\* line 242: the loop runs for i in xrange(0, n - 1)
TotreeRounds(n) == n - 1

\* lines 243-252 for row i: the frame after them, or what they raise
TotreeRow(Z, fr) ==
    LET i == fr.i
        n == fr.n
        fi == At(Z, i, 0)
        fj == At(Z, i, 1)
    IN  IF fi < i + n THEN Raise("AttributeError", 246)
        \* line 247 tests fi again
        ELSE IF fi < i + n THEN Raise("AttributeError", 248)
        ELSE IF fi \notin DOMAIN fr.d \/ fj \notin DOMAIN fr.d THEN Raise("KeyError", 249)
        ELSE LET nd == cnode(i + n, fi, fj, 0, 1)
             IN  IF fr.d[fi].count + fr.d[fj].count # nd.count
                 THEN Raise("AttributeError", 251)
                 ELSE Ok([fr EXCEPT !.nd = nd, !.i = i + 1,
                                    !.d = [id \in 0..(n + i) |->
                                             IF id = n + i THEN nd ELSE fr.d[id]]])

(***************************************************************************)
(* The callers of totree and cophenet: linkage matrices of up to MaxMerges *)
(* rows.  The id columns are those of a valid linkage matrix, or those     *)
(* with one cell replaced, or one id in every cell; the distances and the  *)
(* counts are those of the valid matrix, or have one wrong entry.          *)
(***************************************************************************)
\* the id columns, row after row, of the valid linkage matrices of n objects
ValidIdColumns(n) ==
    {z \in [1..(2 * (n - 1)) -> 0..(2 * n - 3)] :
        /\ \A k, l \in 1..(2 * (n - 1)) : k # l => z[k] # z[l]
        /\ \A k \in 1..(2 * (n - 1)) : z[k] < n + (k - 1) \div 2}

IdColumns(n) ==
    ValidIdColumns(n)
    \cup {[q[1] EXCEPT ![q[2]] = q[3]] :
             q \in ValidIdColumns(n) \X (1..(2 * (n - 1))) \X ((0 - 1)..(2 * n - 1))}
    \cup {[k \in 1..(2 * (n - 1)) |-> id] : id \in 0..(2 * n - 1)}

\* the number of original objects under cluster id of the id columns z;
\* an id that is no cluster yet counts as one object
RECURSIVE Leaves(_, _, _, _)
Leaves(z, n, id, below) ==
    IF id < n \/ id >= below \/ id - n >= Len(z) \div 2 THEN 1
    ELSE Leaves(z, n, z[2 * (id - n) + 1], id) + Leaves(z, n, z[2 * (id - n) + 2], id)

DistColumns(n) ==
    {[i \in 1..(n - 1) |-> i * One]}
    \cup {[i \in 1..(n - 1) |-> IF i = 1 THEN 0 - One ELSE i * One]}

\* the count column of the id columns z: the right one, or with one wrong entry
CountColumn(z, n, wrong) ==
    [i \in 1..(n - 1) |->
        IF wrong = "first" /\ i = 1 THEN 0 - 1
        ELSE Leaves(z, n, n + i - 1, 2 * n) + (IF wrong = "last" /\ i = n - 1 THEN 1 ELSE 0)]

LinkageMatrixOf(n, z, dist, count) ==
    MatOf(n - 1, 4, [q \in (0..(n - 2)) \X (0..3) |->
        CASE q[2] = 0 -> z[2 * q[1] + 1]
          [] q[2] = 1 -> z[2 * q[1] + 2]
          [] q[2] = 2 -> dist[q[1] + 1]
          [] q[2] = 3 -> count[q[1] + 1]])

ZMatricesOf(n) ==
    {LinkageMatrixOf(n, q[1], q[2], CountColumn(q[1], n, q[3])) :
        q \in IdColumns(n) \X DistColumns(n) \X {"none", "first", "last"}}

\* the arrays passed as Z that are no 4-column matrix of doubles
NoLinkageMatrices ==
    {Zeros2(1, 3), Vec(<<0, 1, One, 2>>),
     [Mat(1, 4, <<0, 1, One, 2>>) EXCEPT !.dtype = "int"]}

\* the arrays passed as Z for n objects; for none, those that are no matrix
TotreeInputs(n) == IF n = 0 THEN NoLinkageMatrices ELSE ZMatricesOf(n)

TotreeInit ==
    /\ pc = "totree"
    /\ \E n \in 0..(MaxMerges + 1) : args \in [Z : TotreeInputs(n)]
    /\ frame = <<>>
    /\ calls = <<>>
    /\ ret = Pending

\* lines 203-234: the validation
TotreeEnter ==
    /\ pc = "totree"
    /\ LET r == TotreeValidate(args.Z)
       IN  IF r.status = "error"
           THEN pc' = "totree_returned" /\ ret' = r /\ frame' = frame
           ELSE /\ pc' = "totree_leaves"
                /\ ret' = ret
                /\ frame' = [n |-> r.value, d |-> <<>>, nd |-> None, i |-> 0]
    /\ UNCHANGED <<args, calls>>

\* lines 236-240: the leaves
TotreeLeaves ==
    /\ pc = "totree_leaves"
    /\ frame' = [frame EXCEPT !.d = TotreeLeafNodes(frame.n)]
    /\ pc' = "totree_loop"
    /\ UNCHANGED <<args, calls, ret>>

\* one pass through lines 243-252
TotreeIterate ==
    /\ pc = "totree_loop"
    /\ frame.i < TotreeRounds(frame.n)
    /\ LET r == TotreeRow(args.Z, frame)
       IN  IF r.status = "error"
           THEN pc' = "totree_returned" /\ ret' = r /\ frame' = frame
           ELSE pc' = pc /\ ret' = ret /\ frame' = r.value
    /\ UNCHANGED <<args, calls>>

\* line 254: return nd
TotreeReturn ==
    /\ pc = "totree_loop"
    /\ frame.i >= TotreeRounds(frame.n)
    /\ pc' = "totree_returned"
    /\ ret' = Ok(frame.nd)
    /\ UNCHANGED <<args, frame, calls>>

TotreeNext == TotreeEnter \/ TotreeLeaves \/ TotreeIterate \/ TotreeReturn

SpecTotree == TotreeInit /\ [][TotreeNext]_vars

(***************************************************************************)
(* Claims about totree                                                     *)
(***************************************************************************)
\* Z is a 4-column matrix of doubles with at least one row
FourColumns(Z) ==
    Z.dtype = "double" /\ Len(Z.shape) = 2 /\ Z.shape[2] = 4 /\ Z.shape[1] >= 1

\* some id is referenced by more than one cell of the id columns
IdReused(Z) ==
    \E q, r \in IdCells(Z) : q # r /\ At(Z, q[1], q[2]) = At(Z, r[1], r[2])

\* some row i references a cluster that does not exist yet: an id >= n + i
ForwardReference(Z) ==
    \E q \in IdCells(Z) : At(Z, q[1], q[2]) >= Z.shape[1] + 1 + q[1]

TotreeReturned == pc = "totree_returned"

\* C5: totree rejects with an error every 4-column Z in which some id is
\* referenced more than once and every Z in which row i references an id
\* >= n + i; it returns no root for them.
C5_ReuseAndForwardRejected ==
    (TotreeReturned /\ FourColumns(args.Z)
        /\ (IdReused(args.Z) \/ ForwardReference(args.Z)))
    => ret.status = "error"

\* totree has returned for a Z that reuses an id and for which every check
\* of lines 203-234 passed: the loop over the rows refused it
C5_Witness ==
    /\ TotreeReturned
    /\ FourColumns(args.Z)
    /\ IdReused(args.Z)
    /\ TotreeValidate(args.Z).status = "ok"
    /\ ret.status = "error"

\* Z satisfies the invariants of a linkage matrix: n - 1 >= 1 rows of 4
\* columns, every id of [0, 2n-2) referenced once, no forward reference,
\* non-negative distances, counts that are the sums of the children's
IsValidZ(Z) ==
    /\ FourColumns(Z)
    /\ LET n == Z.shape[1] + 1
       IN  /\ \A id \in 0..(2 * n - 3) :
                  Cardinality({q \in IdCells(Z) : At(Z, q[1], q[2]) = id}) = 1
           /\ ~ForwardReference(Z)
           /\ \A i \in 0..(n - 2) :
                  /\ At(Z, i, 2) >= 0
                  /\ At(Z, i, 3) = Leaves([k \in 1..(2 * (n - 1)) |->
                                              At(Z, (k - 1) \div 2, (k - 1) % 2)],
                                          n, n + i, 2 * n)

\* C6: for every valid linkage matrix totree raises no error and returns
\* the root: the node of id 2n-2 whose children are the nodes of the ids of
\* the last row, over n leaves of count 1, distance 0 and no children.
C6_ValidAccepted ==
    (TotreeReturned /\ IsValidZ(args.Z))
    => /\ ret.status = "ok"
       /\ LET n == args.Z.shape[1] + 1
          IN  /\ ret.value # None
              /\ ret.value.id = 2 * n - 2
              /\ ret.value.left = At(args.Z, n - 2, 0)
              /\ ret.value.right = At(args.Z, n - 2, 1)
              /\ \A i \in 0..(n - 1) : frame.d[i] = cnode(i, None, None, 0, 1)

\* the id columns of Z as one sequence, row after row
IdColumnsOf(Z) ==
    [k \in 1..(2 * Z.shape[1]) |-> At(Z, (k - 1) \div 2, (k - 1) % 2)]

\* Z passes every validation but that of the counts: n - 1 >= 1 rows of 4
\* columns, every id of [0, 2n-2) referenced once, no forward reference, no
\* negative distance or count
ValidButCounts(Z) ==
    /\ FourColumns(Z)
    /\ \A id \in 0..(2 * Z.shape[1] - 1) :
           Cardinality({q \in IdCells(Z) : At(Z, q[1], q[2]) = id}) = 1
    /\ ~ForwardReference(Z)
    /\ \A i \in 0..(Z.shape[1] - 1) : At(Z, i, 2) >= 0 /\ At(Z, i, 3) >= 0

\* every Z[i, 3] is the sum of the counts of the two children of node n + i
CountsAddUp(Z) ==
    \A i \in 0..(Z.shape[1] - 1) :
        At(Z, i, 3) = Leaves(IdColumnsOf(Z), Z.shape[1] + 1, Z.shape[1] + 1 + i,
                             2 * (Z.shape[1] + 1))

\* C12: building node n + i, totree compares Z[i, 3] with the sum of the
\* counts of the two children: it fails with the count error exactly when
\* they differ, and otherwise node n + i carries count Z[i, 3] and distance
\* Z[i, 2].
C12_CountChecked ==
    (TotreeReturned /\ ValidButCounts(args.Z))
    => IF CountsAddUp(args.Z)
       THEN /\ ret.status = "ok"
            /\ \A i \in 0..(args.Z.shape[1] - 1) :
                   /\ frame.d[frame.n + i].count = At(args.Z, i, 3)
                   /\ frame.d[frame.n + i].dist = At(args.Z, i, 2)
       ELSE ret = Raise("AttributeError", 251)

\* the first check Z violates, in the order: distances, counts, id range,
\* id reuse, forward references
FirstViolated(Z) ==
    LET n == Z.shape[1] + 1
    IN  IF \E i \in 0..(n - 2) : At(Z, i, 2) < 0 THEN "distance"
        ELSE IF \E i \in 0..(n - 2) : At(Z, i, 3) < 0 THEN "count"
        ELSE IF \E q \in IdCells(Z) : At(Z, q[1], q[2]) \notin 0..(2 * n - 3) THEN "range"
        ELSE IF IdReused(Z) THEN "reuse"
        ELSE IF ForwardReference(Z) THEN "forward"
        ELSE "none"

\* the lines of totree at which the error of a check is raised: the raise
\* and the condition that guards it
RaisedBy(check) ==
    CASE check = "distance" -> {230, 231}
      [] check = "count" -> {233, 234}
      [] check = "range" -> {226, 227, 228, 229}
      [] check = "reuse" -> {223, 224}
      [] check = "forward" -> {245, 246, 247, 248}

\* C13: totree validates in the order shape, distances, counts, id range,
\* id reuse, forward references and reports the first violated check; every
\* validation error is raised before a node has been constructed.
C13_ValidationPriority ==
    (TotreeReturned /\ FourColumns(args.Z) /\ FirstViolated(args.Z) # "none")
    => /\ ret.status = "error"
       /\ ret.line \in RaisedBy(FirstViolated(args.Z))
       /\ frame = <<>>

(***************************************************************************)
(* cophenet: lines 581-630.  args.a is the tuple of the arguments: Z, then *)
(* Y, then anything.  The cophenetic distances are computed by the         *)
(* extension module, into the vector zz the Python code allocates.         *)
(***************************************************************************)
\* the original observations under cluster id of Z
RECURSIVE Members(_, _)
Members(Z, id) ==
    LET n == Z.shape[1] + 1
    IN  IF id < n THEN {id}
        ELSE Members(Z, At(Z, id - n, 0)) \cup Members(Z, At(Z, id - n, 1))

\* _cluster_wrap.cophenetic_distances_wrap(Z, zz, n): for every pair of
\* observations the distance of the row that first holds both
cophenetic_distances_wrap(Z, zz, n) ==
    [k \in 1..Len(zz) |->
        LET q == PairAt(n, k - 1)
            i == CHOOSE i \in 0..(n - 2) :
                    /\ {q[1], q[2]} \subseteq Members(Z, n + i)
                    /\ \A h \in 0..(i - 1) : ~({q[1], q[2]} \subseteq Members(Z, n + h))
        IN  At(Z, i, 2)]

\* a.mean() of an array of L numbers, times L; the mean of no number is nan
Deviations(a) == [k \in 1..Len(a) |-> Len(a) * a[k] - SumSeq(a)]

\* lines 616-624: c = sum(Yy * Zz) / sqrt(sum(Yy ** 2) * sum(Zz ** 2)),
\* in floating point: a zero denominator gives nan, not an exception
Correlation(Y, zz) ==
    LET Yy == Deviations(Y)
        Zz == Deviations(zz)
        numerator == SumSeq([k \in 1..Len(Y) |-> Yy[k] * Zz[k]])
        denomA == SumSeq([k \in 1..Len(Y) |-> Yy[k] * Yy[k]])
        denomB == SumSeq([k \in 1..Len(Y) |-> Zz[k] * Zz[k]])
    IN  IF Len(Y) = 0 \/ denomA = 0 \/ denomB = 0 THEN NaN
        ELSE (One * numerator) \div (Isqrt(denomA) * Isqrt(denomB))

\* lines 581-599: the checks of Z, and zz
CophenetEnterResult(a) ==
    IF Len(a) < 1 THEN Raise("AttributeError", 584)
    ELSE LET Z == a[1]
         IN  IF Z.dtype # "double" THEN Raise("AttributeError", 588)
             ELSE IF Len(Z.shape) # 2 THEN Raise("AttributeError", 592)
             ELSE IF Z.shape[2] # 4 THEN Raise("AttributeError", 595)
             ELSE LET n == Z.shape[1] + 1
                  IN  Ok([n |-> n, zz |-> Zeros1((n * (n - 1)) \div 2).data])

\* type(Y) is array_type
IsArray(Y) == DOMAIN Y = {"dtype", "shape", "data"}

\* lines 604-630: the checks of Y, the correlation, the result
CophenetCorrelate(a, fr) ==
    LET Y == a[2]
        n == fr.n
    IN  \* line 605 refuses nothing that is an array: the two tests are joined by `and'
        IF ~IsArray(Y) /\ Y.dtype # "double" THEN Raise("AttributeError", 606)
        ELSE IF Len(Y.shape) # 1 THEN Raise("AttributeError", 611)
        ELSE IF Y.shape[1] # (n * (n - 1)) \div 2 THEN Raise("AttributeError", 614)
        ELSE LET c == Correlation(Y.data, fr.zz)
             IN  IF Len(a) = 2 THEN Ok(c)
                 ELSE IF Len(a) = 3 THEN Ok(<<c, Vec(fr.zz)>>)
                 ELSE Ok(None)

(***************************************************************************)
(* The callers of cophenet: the valid linkage matrices of up to MaxMerges  *)
(* rows with distances from DistVals, one matrix that is no matrix of      *)
(* doubles and one of three columns; Y any vector over DistVals of up to   *)
(* as many entries as the largest Z has pairs, or a matrix.                *)
(***************************************************************************)
CophenetZsOf(n) ==
    {LinkageMatrixOf(n, q[1], q[2], CountColumn(q[1], n, "none")) :
        q \in {z \in ValidIdColumns(n) : \A i \in 1..(n - 1) : z[2 * i - 1] < z[2 * i]}
                 \X [1..(n - 1) -> DistVals]}

\* the arrays passed as Z for n objects; for none, those that are no matrix
CophenetZs(n) == IF n = 0 THEN NoLinkageMatrices ELSE CophenetZsOf(n)

CophenetYs ==
    {Vec(y) : y \in UNION {[1..l -> DistVals] :
                             l \in {(n * (n - 1)) \div 2 : n \in 1..(MaxMerges + 1)} \cup {2}}}
    \cup {Mat(1, 1, <<One>>), [Vec(<<One>>) EXCEPT !.dtype = "int"]}

\* cophenet(), cophenet(Z), cophenet(Z, Y) and cophenet(Z, Y, [])
CophenetCall(nargs, Z, Y) == SubSeq(<<Z, Y, <<>>>>, 1, nargs)

CophenetInit ==
    /\ pc = "cophenet"
    /\ \E n \in 0..(MaxMerges + 1), nargs \in 0..3 :
          \E Z \in CophenetZs(n), Y \in CophenetYs :
              args = [a |-> CophenetCall(nargs, Z, Y)]
    /\ frame = <<>>
    /\ calls = <<>>
    /\ ret = Pending

\* lines 581-599
CophenetEnter ==
    /\ pc = "cophenet"
    /\ LET r == CophenetEnterResult(args.a)
       IN  IF r.status = "error"
           THEN pc' = "cophenet_returned" /\ ret' = r /\ frame' = frame
           ELSE pc' = "cophenet_distances" /\ ret' = ret /\ frame' = r.value
    /\ UNCHANGED <<args, calls>>

\* line 600: the call into the extension module
CophenetDistances ==
    /\ pc = "cophenet_distances"
    /\ calls' = Append(calls, [fn |-> "cophenetic_distances_wrap"])
    /\ frame' = [frame EXCEPT !.zz = cophenetic_distances_wrap(args.a[1], frame.zz, frame.n)]
    /\ pc' = "cophenet_computed"
    /\ UNCHANGED <<args, ret>>

\* lines 601-602: cophenet(Z) returns the distances
CophenetReturnDistances ==
    /\ pc = "cophenet_computed"
    /\ Len(args.a) = 1
    /\ ret' = Ok(Vec(frame.zz))
    /\ pc' = "cophenet_returned"
    /\ UNCHANGED <<args, frame, calls>>

\* lines 604-630: cophenet(Z, Y) and cophenet(Z, Y, [])
CophenetReturnCorrelation ==
    /\ pc = "cophenet_computed"
    /\ Len(args.a) > 1
    /\ ret' = CophenetCorrelate(args.a, frame)
    /\ pc' = "cophenet_returned"
    /\ UNCHANGED <<args, frame, calls>>

CophenetNext ==
    CophenetEnter \/ CophenetDistances \/ CophenetReturnDistances \/ CophenetReturnCorrelation

SpecCophenet == CophenetInit /\ [][CophenetNext]_vars

(***************************************************************************)
(* Claims about cophenet                                                   *)
(***************************************************************************)
\* the sum of the squared deviations of a from its mean is zero
ZeroDeviation(a) == \A k \in 1..Len(a) : Deviations(a)[k] = 0

\* C7: cophenet(Z, Y) fails with an error when the sum of squared deviations
\* of Y, or that of the cophenetic vector, is zero.
C7_ZeroVarianceFails ==
    (/\ pc = "cophenet_returned"
     /\ Len(args.a) >= 2
     /\ frame # <<>>
     /\ Rank(args.a[2]) = 1
     /\ Len(args.a[2].data) = Len(frame.zz)
     /\ Len(frame.zz) > 0
     /\ (ZeroDeviation(args.a[2].data) \/ ZeroDeviation(frame.zz)))
    => ret.status = "error"

\* cophenet(Z, Y) or cophenet(Z, Y, []) is called with a 4-column matrix Z of
\* doubles and a Y that is no vector of n(n-1)/2 entries, n = rows(Z) + 1
MismatchedY ==
    /\ Len(args.a) >= 2
    /\ CophenetEnterResult(args.a).status = "ok"
    /\ LET n == args.a[1].shape[1] + 1
       IN  Rank(args.a[2]) # 1 \/ args.a[2].shape[1] # (n * (n - 1)) \div 2

\* C14: cophenet(Z, Y) fails with an error whenever Y is not a 1-D vector
\* of length n(n-1)/2, and it checks Y before the cophenetic distance
\* computation over Z is started: a call with a mismatched Y never runs it.
C14_YCheckedFirst ==
    MismatchedY
    => /\ \A k \in 1..Len(calls) : calls[k].fn # "cophenetic_distances_wrap"
       /\ pc = "cophenet_returned" => ret.status = "error"

=============================================================================
